---- MODULE Spec2Model ----
(***************************************************************************)
(* Model of chatette.cli.interactive_commands.command_strategy:            *)
(* the CommandStrategy base class of the interactive mode.                 *)
(*                                                                         *)
(* A Python string is a sequence of one-character strings, so that         *)
(* indexing, slicing, split and replace are computed as Python computes    *)
(* them.  A message built by concatenation ("No " + name + " matched.")    *)
(* is the sequence of its chunks.                                          *)
(***************************************************************************)
EXTENDS Integers, Sequences, FiniteSets, TLC

VARIABLES
    command_str,        \* the line given to __init__
    quiet,              \* the quiet argument of __init__
    usage_str,          \* the class attribute usage_str (subclasses override it)
    pc,                 \* where the command's life cycle stands
    command_tokens,     \* self.command_tokens
    redirection_tuple,  \* the local redirection_tuple of __init__
    print_wrapper,      \* self.print_wrapper: the arguments TerminalWriter got
    is_regex_global,    \* self._is_regex_global: "None", "True" or "False"
    unit_type,          \* the local unit_type of execute
    unit_regex,         \* the local unit_regex of execute
    parser,             \* facade.parser: the three name-keyed mappings, keys in order
    iter_pos,           \* how many keys the live dict iterator has passed
    iter_size,          \* the dict's size when the iterator was created
    count,              \* the local count of execute
    calls,              \* every call made on the sink and on the overridable hooks
    error               \* the exception that left execute, "None" if none

vars == << command_str, quiet, usage_str, pc, command_tokens, redirection_tuple,
           print_wrapper, is_regex_global, unit_type, unit_regex, parser,
           iter_pos, iter_size, count, calls, error >>

-----------------------------------------------------------------------------
(* Bounds of the model *)

MaxLen == 8

MaxWords == 5

MaxUnits == 2

-----------------------------------------------------------------------------
(* Characters and the module's constants *)

SPACE == " "

QUOTE == "\""

BSLASH == "\\"

REDIRECTION_SYM == << ">" >>

REDIRECTION_APPEND_SYM == << ">", ">" >>

REGEX_SYM == "/"

\* None where a string is expected: no sequence of characters equals it.
NoneStr == << "None" >>

UpperCase == << "A", "E", "G", "I", "K", "L", "N", "O", "S", "T" >>

LowerCase == << "a", "e", "g", "i", "k", "l", "n", "o", "s", "t" >>

-----------------------------------------------------------------------------
(* Python's string operations *)

startswith(s, p) ==
    /\ Len(s) >= Len(p)
    /\ SubSeq(s, 1, Len(p)) = p

endswith(s, p) ==
    /\ Len(s) >= Len(p)
    /\ SubSeq(s, Len(s) - Len(p) + 1, Len(s)) = p

\* s[-k], for k no larger than len(s)
FromEnd(s, k) == s[Len(s) - k + 1]

\* s[1:-1]
Slice1m1(s) == SubSeq(s, 2, Len(s) - 1)

LowerChar(c) ==
    IF \E i \in DOMAIN UpperCase : UpperCase[i] = c
    THEN LowerCase[CHOOSE i \in DOMAIN UpperCase : UpperCase[i] = c]
    ELSE c

lower(s) == [ i \in DOMAIN s |-> LowerChar(s[i]) ]

RECURSIVE rstrip(_)
rstrip(s) ==
    IF s # << >> /\ s[Len(s)] = SPACE
    THEN rstrip(SubSeq(s, 1, Len(s) - 1))
    ELSE s

\* str.split(): the maximal runs of non-whitespace characters
RECURSIVE SplitWords(_, _, _)
SplitWords(s, i, cur) ==
    IF i > Len(s)
    THEN IF cur = << >> THEN << >> ELSE << cur >>
    ELSE IF s[i] = SPACE
         THEN (IF cur = << >> THEN << >> ELSE << cur >>) \o SplitWords(s, i + 1, << >>)
         ELSE SplitWords(s, i + 1, Append(cur, s[i]))

split(s) == SplitWords(s, 1, << >>)

\* str.split(sep) for a one-character sep: the pieces between separators, empty ones kept
RECURSIVE SplitOn(_, _, _, _)
SplitOn(s, sep, i, cur) ==
    IF i > Len(s)
    THEN << cur >>
    ELSE IF s[i] = sep
         THEN << cur >> \o SplitOn(s, sep, i + 1, << >>)
         ELSE SplitOn(s, sep, i + 1, Append(cur, s[i]))

\* str.replace(old, new): left to right, occurrences not overlapping
RECURSIVE replace(_, _, _)
replace(s, old, new) ==
    IF s = << >>
    THEN << >>
    ELSE IF startswith(s, old)
         THEN new \o replace(SubSeq(s, Len(old) + 1, Len(s)), old, new)
         ELSE << Head(s) >> \o replace(Tail(s), old, new)

\* chatette.utils.rchop
rchop(s, ending) ==
    IF endswith(s, ending)
    THEN SubSeq(s, 1, Len(s) - Len(ending))
    ELSE s

RECURSIVE JoinWords(_)
JoinWords(ws) ==
    IF ws = << >>
    THEN << >>
    ELSE IF Len(ws) = 1
         THEN ws[1]
         ELSE ws[1] \o << SPACE >> \o JoinWords(Tail(ws))

-----------------------------------------------------------------------------
(* CommandStrategy.tokenize *)

\* The test without its look at the character before the quote
EndsWithQuote(word) == endswith(word, << QUOTE >>)

\* word.endswith('"') and (len(word) < 2 or word[-2] != '\\')
EndsWithUnescapedQuote(word) ==
    /\ endswith(word, << QUOTE >>)
    /\ (Len(word) < 2 \/ FromEnd(word, 2) # BSLASH)

RECURSIVE TokenizeLoop(_, _, _, _, _)
TokenizeLoop(splitted, i, tokens, current_token, inside_token) ==
    IF i > Len(splitted)
    THEN IF current_token # << >>
         THEN Append(tokens, rstrip(current_token))
         ELSE tokens
    ELSE LET word == splitted[i] IN
         IF inside_token
         THEN IF EndsWithUnescapedQuote(word)
              THEN TokenizeLoop(splitted, i + 1,
                                Append(tokens, rstrip(current_token \o word \o << SPACE >>)),
                                << >>, FALSE)
              ELSE TokenizeLoop(splitted, i + 1, tokens,
                                current_token \o word \o << SPACE >>, TRUE)
         ELSE IF startswith(word, << QUOTE >>) /\ EndsWithUnescapedQuote(word)
              THEN TokenizeLoop(splitted, i + 1, Append(tokens, word), current_token, FALSE)
              ELSE IF startswith(word, << QUOTE >>)
                   THEN TokenizeLoop(splitted, i + 1, tokens,
                                     current_token \o word \o << SPACE >>, TRUE)
                   ELSE TokenizeLoop(splitted, i + 1, Append(tokens, word),
                                     current_token, FALSE)

tokenize(str) ==
    LET splitted == split(str) IN
    IF Len(splitted) = 0
    THEN << >>
    ELSE IF Len(splitted) = 1
         THEN << splitted[1] >>
         ELSE TokenizeLoop(splitted, 1, << >>, << >>, FALSE)

-----------------------------------------------------------------------------
(* Redirections *)

\* TerminalWriter(redirection_type, redirection_file_path): the sink's configuration
TerminalWriter(redirection_type, redirection_file_path) ==
    [ redirection_type |-> redirection_type,
      redirection_file_path |-> redirection_file_path ]

\* What find_redirection_file_path returns: None, or a 2-tuple (type, path)
NoRedirection == [ found |-> FALSE, type |-> "None", path |-> NoneStr ]

Redirection(type, path) == [ found |-> TRUE, type |-> type, path |-> path ]

find_redirection_file_path(tokens) ==
    IF Len(tokens) < 3
    THEN NoRedirection
    ELSE IF FromEnd(tokens, 2) = REDIRECTION_APPEND_SYM
         THEN Redirection("append", FromEnd(tokens, 1))
         ELSE IF FromEnd(tokens, 2) = REDIRECTION_SYM
              THEN Redirection("truncate", FromEnd(tokens, 1))
              ELSE IF \/ FromEnd(tokens, 1) = REDIRECTION_APPEND_SYM
                      \/ FromEnd(tokens, 1) = REDIRECTION_SYM
                   THEN Redirection("None", NoneStr)
                   ELSE NoRedirection

\* The removal that looks for REDIRECTION_SYM alone before the last token
remove_redirection_tokens_sym_only(tokens) ==
    IF FromEnd(tokens, 2) = REDIRECTION_SYM
    THEN SubSeq(tokens, 1, Len(tokens) - 2)
    ELSE SubSeq(tokens, 1, Len(tokens) - 1)

\* @pre: there are redirection tokens in the tokens
remove_redirection_tokens(tokens) ==
    IF \/ FromEnd(tokens, 2) = REDIRECTION_APPEND_SYM
       \/ FromEnd(tokens, 2) = REDIRECTION_SYM
    THEN SubSeq(tokens, 1, Len(tokens) - 2)
    ELSE SubSeq(tokens, 1, Len(tokens) - 1)

-----------------------------------------------------------------------------
(* Unit types and names *)

UnitTypes == { "alias", "slot", "intent" }

get_unit_type_from_str(unit_type_str) ==
    LET s == lower(unit_type_str) IN
    IF s = << "a", "l", "i", "a", "s" >>
    THEN "alias"
    ELSE IF s = << "s", "l", "o", "t" >>
         THEN "slot"
         ELSE IF s = << "i", "n", "t", "e", "n", "t" >>
              THEN "intent"
              ELSE "None"

remove_quotes(text) == replace(Slice1m1(text), << BSLASH, QUOTE >>, << QUOTE >>)

-----------------------------------------------------------------------------
(* The regular expressions of module re, for patterns made of literal       *)
(* characters and backslash escapes (no character class, no repetition).    *)

\* The letters that are no escape of module re: a backslash before one is an error.
BadEscapeLetters == { "g", "i", "k", "q", "G", "I", "K" }

ReError == [ ok |-> FALSE, lits |-> << >>, ignorecase |-> FALSE ]

\* The characters a pattern matches one by one, << "re.error" >> if it does not compile
RECURSIVE ReParse(_)
ReParse(p) ==
    IF p = << >>
    THEN << >>
    ELSE IF Head(p) = BSLASH
         THEN IF Len(p) = 1 \/ p[2] \in BadEscapeLetters
              THEN << "re.error" >>
              ELSE LET rest == ReParse(SubSeq(p, 3, Len(p))) IN
                   IF rest = << "re.error" >> THEN rest ELSE << p[2] >> \o rest
         ELSE LET rest == ReParse(Tail(p)) IN
              IF rest = << "re.error" >> THEN rest ELSE << Head(p) >> \o rest

re_compile(pattern, ignorecase) ==
    LET lits == ReParse(pattern) IN
    IF lits = << "re.error" >>
    THEN ReError
    ELSE [ ok |-> TRUE, lits |-> lits, ignorecase |-> ignorecase ]

ReFold(regex, s) == IF regex.ignorecase THEN lower(s) ELSE s

\* regex.match(name): the pattern matches at index 0
re_match(regex, name) ==
    /\ Len(name) >= Len(regex.lits)
    /\ ReFold(regex, SubSeq(name, 1, Len(regex.lits))) = ReFold(regex, regex.lits)

\* regex.search(name): the pattern matches somewhere
re_search(regex, name) ==
    \E i \in 0 .. (Len(name) - Len(regex.lits)) :
        ReFold(regex, SubSeq(name, i + 1, i + Len(regex.lits))) = ReFold(regex, regex.lits)

-----------------------------------------------------------------------------
(* CommandStrategy.get_name_as_regex *)

NotEmpty(e) == e # << >>

UnescapeRegexSym(s) == replace(s, << BSLASH, REGEX_SYM >>, << REGEX_SYM >>)

\* kind "None": no regex is used within text; kind "regex": the compiled regex,
\* with the value self._is_regex_global has afterwards; kind "IndexError" and
\* kind "re.error": the exception raised.
get_name_as_regex(text, cur_global) ==
    IF /\ startswith(text, << REGEX_SYM >>)
       /\ \/ endswith(text, << REGEX_SYM >>)
          \/ FromEnd(text, 2) = REGEX_SYM
          \/ FromEnd(text, 3) = REGEX_SYM
    THEN LET splitted_str == SelectSeq(SplitOn(text, REGEX_SYM, 1, << >>), NotEmpty) IN
         IF Len(splitted_str) = 1
         THEN LET r == re_compile(UnescapeRegexSym(Slice1m1(text)), FALSE) IN
              [ kind |-> IF r.ok THEN "regex" ELSE "re.error",
                regex |-> r, global |-> cur_global ]
         ELSE IF Len(splitted_str) = 0
              THEN [ kind |-> "IndexError", regex |-> ReError, global |-> cur_global ]
              ELSE LET flags == splitted_str[Len(splitted_str)]
                       text_without_flags == rchop(text, flags)
                       global == IF \E i \in DOMAIN flags : flags[i] = "g"
                                 THEN "True" ELSE "False"
                       r == re_compile(UnescapeRegexSym(Slice1m1(text_without_flags)),
                                       \E i \in DOMAIN flags : flags[i] = "i")
                   IN  [ kind |-> IF r.ok THEN "regex" ELSE "re.error",
                         regex |-> r, global |-> global ]
    ELSE [ kind |-> "None", regex |-> ReError, global |-> cur_global ]

-----------------------------------------------------------------------------
(* CommandStrategy.next_matching_unit_name *)

relevant_dict(p, type) ==
    IF type = "alias"
    THEN p.alias_definitions
    ELSE IF type = "slot"
         THEN p.slot_definitions
         ELSE IF type = "intent"
              THEN p.intent_definitions
              ELSE << >>

\* if self._is_regex_global: regex.search(unit_name), else regex.match(unit_name)
NameMatches(global, regex, unit_name) ==
    IF global = "True"
    THEN re_search(regex, unit_name)
    ELSE re_match(regex, unit_name)

\* The positions after `pos` of the keys the generator would yield
MatchingPositions(d, pos, global, regex) ==
    { j \in (pos + 1) .. Len(d) : NameMatches(global, regex, d[j]) }

SetMin(S) == CHOOSE m \in S : \A n \in S : m <= n

\* del d[name]: the keys left, in order
DictWithout(d, name) ==
    LET Other(k) == k # name IN SelectSeq(d, Other)

ParserWithout(p, type, name) ==
    IF type = "alias"
    THEN [ p EXCEPT !.alias_definitions = DictWithout(@, name) ]
    ELSE IF type = "slot"
         THEN [ p EXCEPT !.slot_definitions = DictWithout(@, name) ]
         ELSE IF type = "intent"
              THEN [ p EXCEPT !.intent_definitions = DictWithout(@, name) ]
              ELSE p

-----------------------------------------------------------------------------
(* The inputs *)

Str_x == << "x" >>

TypeWords ==
    { << "a", "l", "i", "a", "s" >>,
      << "S", "L", "O", "T" >>,
      << "i", "n", "t", "e", "n", "t" >>,
      << "u", "n", "i", "t" >> }

NameWords ==
    { << "k", "i", "g" >>,                                  \* kig
      << QUOTE, "k", "g", QUOTE >>,                         \* "kg"
      << QUOTE, "k", BSLASH, QUOTE, "g", QUOTE >>,          \* "k\"g"
      << QUOTE, "k", SPACE, "g", QUOTE >>,                  \* "k g"
      << "/", "k", "/" >>,                                  \* /k/
      << "/", "k", "/", "g" >>,                             \* /k/g
      << "/", "K", "/", "i" >>,                             \* /K/i
      << "/", "K", "/", "g", "i" >>,                        \* /K/gi
      << "/", "k", BSLASH, "/", "g", "/" >>,                \* /k\/g/
      << "/", "g" >>,                                       \* /g
      << "/", "q", "/" >>,                                  \* /q/
      << "/", "/" >>,                                       \* //
      << "/", BSLASH, "g", "/" >> }                         \* /\g/

Tails ==
    { << >>,
      << REDIRECTION_SYM >>,
      << REDIRECTION_APPEND_SYM >>,
      << REDIRECTION_SYM, << "f" >> >>,
      << REDIRECTION_APPEND_SYM, << "f" >> >> }

Prefixes ==
    { << >>, << Str_x >> }
        \cup { << Str_x, t >> : t \in TypeWords }
        \cup { << Str_x, t, n >> : t \in TypeWords, n \in NameWords }

CommandLines == { JoinWords(p \o t) : p \in Prefixes, t \in Tails }

UnitNames ==
    { << "k", "g" >>, << "g", "k" >>, << "k", "/", "g" >>, << "g", "k", "/", "g" >> }

\* The key sequences of a dict of at most n units
RECURSIVE KeySeqs(_)
KeySeqs(n) ==
    IF n = 0
    THEN { << >> }
    ELSE LET shorter == KeySeqs(n - 1) IN
         shorter \cup { Append(d, k) : d \in { e \in shorter : Len(e) = n - 1 },
                                       k \in UnitNames }

RECURSIVE NoDuplicate(_)
NoDuplicate(d) ==
    \A i, j \in DOMAIN d : i # j => d[i] # d[j]

Dicts == { d \in KeySeqs(MaxUnits) : NoDuplicate(d) }

Parsers ==
    [ alias_definitions : Dicts,
      slot_definitions : { << >> },
      intent_definitions : { << << "k", "g" >>, << "g", "k" >>, << "k", "/", "g" >> >> } ]

EmptyParser ==
    [ alias_definitions |-> << >>, slot_definitions |-> << >>, intent_definitions |-> << >> ]

UsageStrs == { "Undefined", "exist <unit-type> \"<unit-name>\"" }

\* The characters of the lines that exercise the tokenizer
TokenizerChars == { SPACE, QUOTE, BSLASH, "k" }

RECURSIVE StringsUpTo(_, _)
StringsUpTo(chars, n) ==
    IF n = 0
    THEN { << >> }
    ELSE LET shorter == StringsUpTo(chars, n - 1) IN
         shorter \cup { Append(s, c) : s \in { e \in shorter : Len(e) = n - 1 }, c \in chars }

\* The words of the lines that exercise the redirections
RedirectionWords == { Str_x, REDIRECTION_SYM, REDIRECTION_APPEND_SYM, << "f" >> }

WordLines == { JoinWords(ws) : ws \in StringsUpTo(RedirectionWords, MaxWords) }

-----------------------------------------------------------------------------
(* The state machine *)

InitWith(lines, usages, parsers) ==
    /\ command_str \in lines
    /\ quiet \in BOOLEAN
    /\ usage_str \in usages
    /\ parser \in parsers
    /\ pc = "new"
    /\ command_tokens = << >>
    /\ redirection_tuple = NoRedirection
    /\ print_wrapper = TerminalWriter("None", NoneStr)
    /\ is_regex_global = "None"
    /\ unit_type = "None"
    /\ unit_regex = ReError
    /\ iter_pos = 0
    /\ iter_size = 0
    /\ count = 0
    /\ calls = << >>
    /\ error = "None"

Init == InitWith(CommandLines, UsageStrs, Parsers)

Call(op, type, text) == [ op |-> op, unit_type |-> type, text |-> text ]

\* CommandStrategy.__init__
Construct ==
    /\ pc = "new"
    /\ LET tokens == tokenize(command_str)
           tuple == find_redirection_file_path(tokens)
       IN  /\ redirection_tuple' = tuple
           /\ IF tuple.found
              THEN /\ command_tokens' = remove_redirection_tokens(tokens)
                   /\ print_wrapper' = TerminalWriter(tuple.type, tuple.path)
              ELSE /\ command_tokens' = tokens
                   /\ print_wrapper' = IF quiet
                                       THEN TerminalWriter("quiet", NoneStr)
                                       ELSE TerminalWriter("None", NoneStr)
    /\ is_regex_global' = "None"
    /\ pc' = "constructed"
    /\ UNCHANGED << command_str, quiet, usage_str, unit_type, unit_regex, parser,
                    iter_pos, iter_size, count, calls, error >>

\* The usage error without its return: execute goes on to finish_execution
ExecuteUsageNoReturn ==
    /\ pc = "constructed"
    /\ Len(command_tokens) < 3
    /\ calls' = Append(calls, Call("error_log", "None",
                                   << "Missing some arguments\nUsage: ", usage_str >>))
    /\ pc' = "finish"
    /\ UNCHANGED << command_str, quiet, usage_str, command_tokens, redirection_tuple,
                    print_wrapper, is_regex_global, unit_type, unit_regex, parser,
                    iter_pos, iter_size, count, error >>

\* execute, too few tokens: the usage error and the early return
ExecuteUsage ==
    /\ pc = "constructed"
    /\ Len(command_tokens) < 3
    /\ calls' = Append(calls, Call("error_log", "None",
                                   << "Missing some arguments\nUsage: ", usage_str >>))
    /\ pc' = "returned"
    /\ UNCHANGED << command_str, quiet, usage_str, command_tokens, redirection_tuple,
                    print_wrapper, is_regex_global, unit_type, unit_regex, parser,
                    iter_pos, iter_size, count, error >>

\* execute: the unit type and the regex of the name
ExecuteParse ==
    /\ pc = "constructed"
    /\ Len(command_tokens) >= 3
    /\ LET type == get_unit_type_from_str(command_tokens[2])
           found == get_name_as_regex(command_tokens[3], is_regex_global)
       IN  /\ unit_type' = type
           /\ unit_regex' = found.regex
           /\ is_regex_global' = found.global
           /\ iter_size' = Len(relevant_dict(parser, type))
           /\ IF found.kind \in { "IndexError", "re.error" }
              THEN pc' = "raised" /\ error' = found.kind
              ELSE /\ pc' = IF found.kind = "None" THEN "literal" ELSE "iterate"
                   /\ error' = error
    /\ iter_pos' = 0
    /\ count' = 0
    /\ UNCHANGED << command_str, quiet, usage_str, command_tokens, redirection_tuple,
                    print_wrapper, parser, calls >>

\* What a call of execute_on_unit, which subclasses define, can do
Outcomes == { "ok", "raise", "mutate" }

\* execute, the name is no regex: one call of execute_on_unit
ExecuteLiteral ==
    /\ pc = "literal"
    /\ LET unit_name == remove_quotes(command_tokens[3]) IN
       \E outcome \in Outcomes :
           /\ calls' = Append(calls, Call("execute_on_unit", unit_type, unit_name))
           /\ parser' = IF outcome = "mutate"
                        THEN ParserWithout(parser, unit_type, unit_name)
                        ELSE parser
           /\ IF outcome = "raise"
              THEN pc' = "raised" /\ error' = "UnitActionError"
              ELSE pc' = "finish" /\ error' = error
    /\ UNCHANGED << command_str, quiet, usage_str, command_tokens, redirection_tuple,
                    print_wrapper, is_regex_global, unit_type, unit_regex,
                    iter_pos, iter_size, count >>

\* next_matching_unit_name raises: no dict for the unit type, or the dict changed
\* size while the generator iterates over it
NextMatchingUnitNameRaises ==
    /\ pc = "iterate"
    /\ \/ unit_type \notin UnitTypes /\ error' = "ValueError"
       \/ /\ unit_type \in UnitTypes
          /\ Len(relevant_dict(parser, unit_type)) # iter_size
          /\ error' = "RuntimeError"
    /\ pc' = "raised"
    /\ UNCHANGED << command_str, quiet, usage_str, command_tokens, redirection_tuple,
                    print_wrapper, is_regex_global, unit_type, unit_regex, parser,
                    iter_pos, iter_size, count, calls >>

\* The loop body without count += 1
ExecuteOnNextMatchNoCount ==
    /\ pc = "iterate"
    /\ unit_type \in UnitTypes
    /\ LET d == relevant_dict(parser, unit_type)
           next == MatchingPositions(d, iter_pos, is_regex_global, unit_regex)
       IN  /\ Len(d) = iter_size
           /\ next # { }
           /\ LET j == SetMin(next) IN
              \E outcome \in Outcomes :
                  /\ iter_pos' = j
                  /\ calls' = Append(calls, Call("execute_on_unit", unit_type, d[j]))
                  /\ parser' = IF outcome = "mutate"
                               THEN ParserWithout(parser, unit_type, d[j])
                               ELSE parser
                  /\ IF outcome = "raise"
                     THEN pc' = "raised" /\ error' = "UnitActionError" /\ count' = count
                     ELSE pc' = "iterate" /\ error' = error /\ count' = count
    /\ UNCHANGED << command_str, quiet, usage_str, command_tokens, redirection_tuple,
                    print_wrapper, is_regex_global, unit_type, unit_regex, iter_size >>

\* execute, the loop body: the generator yields the next matching name
ExecuteOnNextMatch ==
    /\ pc = "iterate"
    /\ unit_type \in UnitTypes
    /\ LET d == relevant_dict(parser, unit_type)
           next == MatchingPositions(d, iter_pos, is_regex_global, unit_regex)
       IN  /\ Len(d) = iter_size
           /\ next # { }
           /\ LET j == SetMin(next) IN
              \E outcome \in Outcomes :
                  /\ iter_pos' = j
                  /\ calls' = Append(calls, Call("execute_on_unit", unit_type, d[j]))
                  /\ parser' = IF outcome = "mutate"
                               THEN ParserWithout(parser, unit_type, d[j])
                               ELSE parser
                  /\ IF outcome = "raise"
                     THEN pc' = "raised" /\ error' = "UnitActionError" /\ count' = count
                     ELSE pc' = "iterate" /\ error' = error /\ count' = count + 1
    /\ UNCHANGED << command_str, quiet, usage_str, command_tokens, redirection_tuple,
                    print_wrapper, is_regex_global, unit_type, unit_regex, iter_size >>

\* execute, the generator is exhausted: the message when nothing matched
ExecuteLoopEnd ==
    /\ pc = "iterate"
    /\ unit_type \in UnitTypes
    /\ LET d == relevant_dict(parser, unit_type) IN
       /\ Len(d) = iter_size
       /\ MatchingPositions(d, iter_pos, is_regex_global, unit_regex) = { }
       /\ iter_pos' = Len(d)
    /\ calls' = IF count = 0
                THEN Append(calls, Call("write", "None",
                                        << "No ", unit_type, " matched." >>))
                ELSE calls
    /\ pc' = "finish"
    /\ UNCHANGED << command_str, quiet, usage_str, command_tokens, redirection_tuple,
                    print_wrapper, is_regex_global, unit_type, unit_regex, parser,
                    iter_size, count, error >>

\* The last statement followed by a flush of the sink inside execute
FinishExecutionThenFlush ==
    /\ pc = "finish"
    /\ calls' = calls \o << Call("finish_execution", "None", << >>),
                            Call("flush", "None", << >>) >>
    /\ pc' = "returned"
    /\ UNCHANGED << command_str, quiet, usage_str, command_tokens, redirection_tuple,
                    print_wrapper, is_regex_global, unit_type, unit_regex, parser,
                    iter_pos, iter_size, count, error >>

\* execute, its last statement: self.finish_execution(facade), then the return
FinishExecution ==
    /\ pc = "finish"
    /\ calls' = Append(calls, Call("finish_execution", "None", << >>))
    /\ pc' = "returned"
    /\ UNCHANGED << command_str, quiet, usage_str, command_tokens, redirection_tuple,
                    print_wrapper, is_regex_global, unit_type, unit_regex, parser,
                    iter_pos, iter_size, count, error >>

\* flush_output, which the caller of execute calls once execute has returned
FlushOutput ==
    /\ pc = "returned"
    /\ calls' = Append(calls, Call("flush", "None", << >>))
    /\ pc' = "flushed"
    /\ UNCHANGED << command_str, quiet, usage_str, command_tokens, redirection_tuple,
                    print_wrapper, is_regex_global, unit_type, unit_regex, parser,
                    iter_pos, iter_size, count, error >>

Next ==
    \/ Construct
    \/ ExecuteUsage
    \/ ExecuteParse
    \/ ExecuteLiteral
    \/ NextMatchingUnitNameRaises
    \/ ExecuteOnNextMatch
    \/ ExecuteLoopEnd
    \/ FinishExecution
    \/ FlushOutput

Spec == Init /\ [][Next]_vars

\* The constructor alone, on every line over the tokenizer's characters
InitTokenize == InitWith(StringsUpTo(TokenizerChars, MaxLen), { "Undefined" }, { EmptyParser })

NextConstruct == Construct

SpecTokenize == InitTokenize /\ [][NextConstruct]_vars

\* The constructor alone, on every line of words and redirection symbols
InitRedirection == InitWith(WordLines, { "Undefined" }, { EmptyParser })

SpecRedirection == InitRedirection /\ [][NextConstruct]_vars

-----------------------------------------------------------------------------
(* What the claims speak of *)

IsUnitCall(c) == c.op = "execute_on_unit"

IsFinishCall(c) == c.op = "finish_execution"

IsFlushCall(c) == c.op = "flush"

IsWriteCall(c) == c.op = "write"

UnitCalls == SelectSeq(calls, IsUnitCall)

\* The names execute_on_unit was called with, in order
Invoked == [ i \in DOMAIN UnitCalls |-> UnitCalls[i].text ]

NbCalls(Test(_)) == Len(SelectSeq(calls, Test))

\* The tokens of the line before any redirection token is removed
LineTokens == tokenize(command_str)

IsOperator(token) == token \in { REDIRECTION_SYM, REDIRECTION_APPEND_SYM }

\* execute is over: it returned, or an exception left it
ExecuteEnded == pc \in { "returned", "flushed", "raised" }

\* execute has parsed its tokens and token[2] is no delimited regex
LiteralCase ==
    /\ pc \notin { "new", "constructed" }
    /\ Len(command_tokens) >= 3
    /\ get_name_as_regex(command_tokens[3], "None").kind = "None"

\* execute has parsed its tokens and token[2] gave a compiled regex
PatternCase ==
    /\ pc \notin { "new", "constructed" }
    /\ Len(command_tokens) >= 3
    /\ get_name_as_regex(command_tokens[3], "None").kind = "regex"

IsPrefix(s, t) == Len(s) <= Len(t) /\ SubSeq(t, 1, Len(s)) = s

-----------------------------------------------------------------------------
\* C1: a line of at least 3 tokens whose last token is a bare ">" or ">>", not
\* preceded by another operator, gets a sink in quiet mode, a configuration
\* other than the one of a line with no redirection.
C1_BareOperatorSuppresses ==
    ( /\ pc # "new"
      /\ Len(LineTokens) >= 3
      /\ IsOperator(FromEnd(LineTokens, 1))
      /\ ~IsOperator(FromEnd(LineTokens, 2)) )
    => /\ print_wrapper.redirection_type = "quiet"
       /\ print_wrapper # TerminalWriter("None", NoneStr)

\* C2: with token[1] none of alias, slot, intent, execute ends with a fatal error
\* before any per-unit action: execute_on_unit is never called with an
\* unrecognized unit type, whether token[2] is a literal or a regex.
C2_UnknownUnitTypeAborts ==
    /\ \A i \in DOMAIN calls :
           IsUnitCall(calls[i]) => calls[i].unit_type \in UnitTypes
    /\ ( /\ pc \notin { "new", "constructed" }
         /\ Len(command_tokens) >= 3
         /\ get_unit_type_from_str(command_tokens[2]) \notin UnitTypes )
       => pc \notin { "finish", "returned", "flushed" }

\* The characters after the final "/" of a token
RECURSIVE FlagSuffix(_)
FlagSuffix(text) ==
    IF text = << >> \/ FromEnd(text, 1) = REGEX_SYM
    THEN << >>
    ELSE Append(FlagSuffix(SubSeq(text, 1, Len(text) - 1)), FromEnd(text, 1))

HasGlobalFlag(text) == \E i \in DOMAIN FlagSuffix(text) : FlagSuffix(text)[i] = "g"

\* The names the generator yields from the selected mapping, in the mapping's order
MatchingNames ==
    LET Matches(name) == NameMatches(is_regex_global, unit_regex, name)
    IN  SelectSeq(relevant_dict(parser, unit_type), Matches)

\* The names of the selected mapping the regex matches somewhere
SearchedNames ==
    LET Found(name) == re_search(unit_regex, name)
    IN  SelectSeq(relevant_dict(parser, unit_type), Found)

\* The names of the selected mapping the regex matches at index 0
AnchoredNames ==
    LET Found(name) == re_match(unit_regex, name)
    IN  SelectSeq(relevant_dict(parser, unit_type), Found)

\* C3: for a token recognized as a delimited regex, names are searched anywhere
\* if and only if the flag suffix after the final "/" contains "g"; in every
\* other case, a body holding "/" or "\/" included, they are matched anchored
\* at index 0.
C3_SearchIffGFlag ==
    (PatternCase /\ unit_type \in UnitTypes)
    => MatchingNames = (IF HasGlobalFlag(command_tokens[3])
                        THEN SearchedNames
                        ELSE AnchoredNames)

\* The name the claim expects of a literal token
UnquotedName(token) ==
    IF Len(token) >= 2 /\ Head(token) = QUOTE /\ FromEnd(token, 1) = QUOTE
    THEN replace(Slice1m1(token), << BSLASH, QUOTE >>, << QUOTE >>)
    ELSE token

\* C4: in the literal case execute calls the per-unit action exactly once, with
\* token[2] stripped of one pair of surrounding double quotes and \" replaced
\* by "; a bare token is passed as it is.
C4_LiteralNamePassed ==
    (LiteralCase /\ pc # "literal")
    => /\ Len(Invoked) = 1
       /\ Invoked[1] = UnquotedName(command_tokens[3])

\* C5, as claimed: an execute call that reaches finish_execution then flushes the
\* sink before it returns: per-unit actions, finish_execution, one flush.
C5_ExecuteFlushesBeforeReturn ==
    (pc = "returned" /\ NbCalls(IsFinishCall) > 0)
    => /\ NbCalls(IsFlushCall) = 1
       /\ IsFlushCall(calls[Len(calls)])
       /\ IsFinishCall(calls[Len(calls) - 1])

\* C5, amended: execute itself never flushes the sink.  Within one execute call
\* the order is per-unit actions, then finish_execution at most once and last,
\* then the return; the one flush is made after execute has returned, by a
\* separate call of flush_output.
C5_ExecuteNeverFlushes ==
    /\ pc # "flushed" => NbCalls(IsFlushCall) = 0
    /\ pc = "flushed" => NbCalls(IsFlushCall) = 1 /\ IsFlushCall(calls[Len(calls)])
    /\ NbCalls(IsFinishCall) <= 1
    /\ \A i \in DOMAIN calls :
           IsFinishCall(calls[i])
           => /\ pc \in { "returned", "flushed" }
              /\ \A j \in DOMAIN calls : j > i => IsFlushCall(calls[j])

C5_Witness ==
    /\ pc = "flushed"
    /\ NbCalls(IsFinishCall) = 1
    /\ Len(Invoked) >= 2

NoMatchMessage == Call("write", "None", << "No ", unit_type, " matched." >>)

\* C7: in the pattern case, while the per-unit action leaves the registry alone,
\* execute calls the action once for each name of the selected mapping that the
\* regex matches, in the mapping's order, and for no other name; it writes
\* "No <unit_type> matched." exactly when it made no call.
C7_PatternInvocations ==
    ( /\ PatternCase
      /\ unit_type \in UnitTypes
      /\ Len(relevant_dict(parser, unit_type)) = iter_size )
    => /\ IsPrefix(Invoked, MatchingNames)
       /\ \A i \in DOMAIN UnitCalls : UnitCalls[i].unit_type = unit_type
       /\ pc \in { "finish", "returned", "flushed" }
          => /\ Invoked = MatchingNames
             /\ NbCalls(IsWriteCall) = (IF Len(Invoked) = 0 THEN 1 ELSE 0)
             /\ \A i \in DOMAIN calls :
                    IsWriteCall(calls[i]) => calls[i] = NoMatchMessage
       /\ pc \in { "iterate", "raised" } => NbCalls(IsWriteCall) = 0

C7_Witness ==
    /\ PatternCase
    /\ pc = "returned"
    /\ Len(Invoked) = 2
    /\ Len(relevant_dict(parser, unit_type)) = 3

C9_FinishExactlyOnce ==
    ( /\ ExecuteEnded
      /\ Len(command_tokens) >= 3
      /\ get_unit_type_from_str(command_tokens[2]) \in UnitTypes
      /\ error # "UnitActionError" )
    => /\ NbCalls(IsFinishCall) = 1
       /\ \A i, j \in DOMAIN calls :
              (IsFinishCall(calls[i]) /\ (IsUnitCall(calls[j]) \/ IsWriteCall(calls[j])))
              => j < i

\* A word that opens a quoted run: it begins with a quote and is no token by itself
\* A word whose last character is a quote that no backslash precedes
ClosesRun(word) ==
    /\ word # << >>
    /\ FromEnd(word, 1) = QUOTE
    /\ (Len(word) = 1 \/ FromEnd(word, 2) # BSLASH)

OpensRun(word) == word # << >> /\ Head(word) = QUOTE /\ ~ClosesRun(word)

\* The words, each run from an opening word to the first following word that
\* ends with an unescaped quote merged into one token
RECURSIVE MergeQuoted(_)
MergeQuoted(words) ==
    IF words = << >>
    THEN << >>
    ELSE IF OpensRun(Head(words))
         THEN LET closers == { j \in 2 .. Len(words) : ClosesRun(words[j]) }
              IN  IF closers = { }
                  THEN << JoinWords(words) >>
                  ELSE LET j == SetMin(closers) IN
                       << JoinWords(SubSeq(words, 1, j)) >>
                           \o MergeQuoted(SubSeq(words, j + 1, Len(words)))
         ELSE << Head(words) >> \o MergeQuoted(Tail(words))

\* C10: tokenize returns the whitespace-separated words in order, each quoted
\* run merged into one token, its words joined by single spaces; a word that
\* starts and ends with an unescaped quote is a token by itself; a run that is
\* never closed is the final token, holding every word since its opening word.
C10_TokenizeMergesQuotedRuns ==
    pc = "constructed" => command_tokens = MergeQuoted(split(command_str))

C10_Witness ==
    /\ pc = "constructed"
    /\ Len(command_tokens) = 2
    /\ Len(split(command_str)) = 3
    /\ \E i \in DOMAIN command_tokens[1] : command_tokens[1][i] = SPACE
    /\ \E i \in DOMAIN command_tokens[1] : command_tokens[1][i] = BSLASH

====
